---- MODULE Spec2Model ----
(***************************************************************************)
(* Event Desk backend: the events table, the eventAttendees table, the     *)
(* single better-sqlite3 connection shared by all request handlers, and    *)
(* the HTTP handlers that write them (create-event, publish, cancel and    *)
(* the RSVP upsert POST /api/events/:eventId/attendees).                   *)
(*                                                                         *)
(* Strings that the code parses or matches (the :eventId route parameter,  *)
(* attendeeEmail) are sequences of one-character strings, so that parseInt *)
(* and the e-mail regular expression are computed, not assumed.            *)
(***************************************************************************)
EXTENDS Integers, Sequences, FiniteSets, TLC

VARIABLES
    events,          \* table events: sequence of rows, row i has id i (AUTOINCREMENT, no DELETE)
    eventAttendees,  \* table eventAttendees: sequence of rows, row i has id i
    inTransaction,   \* the connection has an open transaction (db.inTransaction)
    journal,         \* contents of both tables when the open transaction began
    suspended,       \* upsert handlers parked at an await, with their locals
    last,            \* the request handled last, with the response and log line it produced
    latest,          \* history: per (eventId, attendeeEmail), the status of the latest
                     \* submission that was answered 200 or 201
    attendeeDetails, \* table eventAttendees, columns notes, rsvpDate, created_at: row i
                     \* belongs to row i of eventAttendees
    clock            \* the store's CURRENT_TIMESTAMP, in whole seconds

vars == <<events, eventAttendees, inTransaction, journal, suspended, last, latest,
          attendeeDetails, clock>>

(***************************************************************************)
(* Bounds of the model.                                                    *)
(***************************************************************************)
MaxEvents == 2       \* createEvent is not taken once the events table has this many rows
MaxRows == 2         \* an upsert is not started once eventAttendees has this many rows
MaxClock == 2        \* no request is handled later than this second

(***************************************************************************)
(* JavaScript values of the request.                                       *)
(***************************************************************************)
\* attendeeEmail: a string (a sequence of characters) or undefined
UndefinedEmail == [defined |-> FALSE, value |-> <<>>]
\* responseStatus: a string or undefined
UndefinedStatus == [defined |-> FALSE, value |-> ""]
Val(v) == [defined |-> TRUE, value |-> v]

Digits == {"0", "1", "2", "3", "4", "5", "6", "7", "8", "9"}
WhiteSpace == {" ", "\t", "\n"}
NaN == -999999       \* stands for the number NaN; no parse of a modelled string yields it
IsNaN(n) == n = NaN

DigitVal(c) ==
    CASE c = "0" -> 0 [] c = "1" -> 1 [] c = "2" -> 2 [] c = "3" -> 3 [] c = "4" -> 4
      [] c = "5" -> 5 [] c = "6" -> 6 [] c = "7" -> 7 [] c = "8" -> 8 [] c = "9" -> 9

RECURSIVE SkipWhiteSpace(_)
SkipWhiteSpace(s) ==
    IF s # <<>> /\ Head(s) \in WhiteSpace THEN SkipWhiteSpace(Tail(s)) ELSE s

RECURSIVE DigitPrefix(_, _)
\* value of the longest prefix of decimal digits of s, acc being the value read so far
DigitPrefix(s, acc) ==
    IF s # <<>> /\ Head(s) \in Digits
    THEN DigitPrefix(Tail(s), 10 * acc + DigitVal(Head(s)))
    ELSE acc

\* parseInt(string) with no radix: leading white space is skipped, one sign is
\* read, then the longest run of decimal digits; NaN when there is no digit.
\* What follows the digits is ignored.
ParseInt(str) ==
    LET s == SkipWhiteSpace(str)
        neg == s # <<>> /\ Head(s) = "-"
        t == IF s # <<>> /\ Head(s) \in {"-", "+"} THEN Tail(s) ELSE s
    IN  IF t = <<>> \/ Head(t) \notin Digits THEN NaN
        ELSE IF neg THEN 0 - DigitPrefix(t, 0) ELSE DigitPrefix(t, 0)

\* [^\s@]+ : a non-empty string with no white space and no @
NoSpaceNoAt(s) ==
    /\ s # <<>>
    /\ \A i \in 1..Len(s) : s[i] \notin WhiteSpace /\ s[i] # "@"

\* /^[^\s@]+@[^\s@]+\.[^\s@]+$/.test(s)
EmailRegexTest(s) ==
    \E i, j \in 1..Len(s) :
        /\ i < j
        /\ s[i] = "@"
        /\ s[j] = "."
        /\ NoSpaceNoAt(SubSeq(s, 1, i - 1))
        /\ NoSpaceNoAt(SubSeq(s, i + 1, j - 1))
        /\ NoSpaceNoAt(SubSeq(s, j + 1, Len(s)))

allowedStatuses == {"Pending", "Attending", "Not Attending", "Maybe"}

\* JavaScript truthiness of the two string-valued fields: undefined and the
\* empty string are falsy
TruthyEmail(v) == v.defined /\ v.value # <<>>
TruthyStatus(v) == v.defined /\ v.value # ""

(***************************************************************************)
(* JSON values of the body of a create-event request: undefined (the key   *)
(* is absent), null, a string, or a number num / den (den > 0).            *)
(***************************************************************************)
JsUndefined == [type |-> "undefined", str |-> "", num |-> 0, den |-> 1]
JsNull == [type |-> "null", str |-> "", num |-> 0, den |-> 1]
JsString(s) == [type |-> "string", str |-> s, num |-> 0, den |-> 1]
JsNumber(n, d) == [type |-> "number", str |-> "", num |-> n, den |-> d]

\* typeof v
TypeOf(v) == IF v.type = "null" THEN "object" ELSE v.type

\* !v is false: a non-empty string or a number other than 0
Truthy(v) ==
    \/ v.type = "string" /\ v.str # ""
    \/ v.type = "number" /\ v.num # 0

\* Number.isInteger(v), v a number
NumberIsInteger(v) == v.num % v.den = 0

\* the value an INSERT stores in a column of INTEGER affinity for a bound number:
\* the integer when the number has no fractional part, else the number itself
IntegerAffinity(v) == IF v.num % v.den = 0 THEN JsNumber(v.num \div v.den, 1) ELSE v

RECURSIVE NumberToString(_)
\* `${n}` for a non-negative integer: its decimal digits
NumberToString(n) ==
    LET d == CHOOSE c \in Digits : DigitVal(c) = n % 10
    IN  IF n < 10 THEN <<d>> ELSE Append(NumberToString(n \div 10), d)

(***************************************************************************)
(* The schema and the SQL statements the handlers run.  A database is the  *)
(* record [events, eventAttendees, inTransaction, journal]; writes go to   *)
(* the tables at once, ROLLBACK puts back the journal.                     *)
(***************************************************************************)
eventStatuses == {"Created", "Published", "Archived", "Cancelled"}

\* the columns of table events
eventsColumns ==
    {"id", "creatorEmail", "eventName", "description", "targetedAttendees", "eventDate",
     "eventStartTime", "eventEndTime", "eventDuration", "status", "created_at",
     "attendingCount", "notAttendingCount", "maybeCount", "pendingCount"}

\* the insert that stores the start time in both time columns
NewEventRow_EndTimeFromStart(body, now) ==
    [creatorEmail |-> body.creatorEmail, eventName |-> body.eventName,
     description |-> body.description,
     targetedAttendees |-> IntegerAffinity(body.targetedAttendees),
     eventDate |-> body.eventDate, eventStartTime |-> body.eventStartTime,
     eventEndTime |-> body.eventStartTime,
     eventDuration |-> JsNull,
     status |-> "Created",
     created_at |-> now,
     attendingCount |-> 0, notAttendingCount |-> 0, maybeCount |-> 0, pendingCount |-> 0]

\* the insert that counts every targeted attendee as pending from the start
NewEventRow_PendingFromTarget(body, now) ==
    [creatorEmail |-> body.creatorEmail, eventName |-> body.eventName,
     description |-> body.description,
     targetedAttendees |-> IntegerAffinity(body.targetedAttendees),
     eventDate |-> body.eventDate, eventStartTime |-> body.eventStartTime,
     eventEndTime |-> body.eventEndTime,
     eventDuration |-> JsNull,
     status |-> "Created",
     created_at |-> now,
     attendingCount |-> 0, notAttendingCount |-> 0, maybeCount |-> 0,
     pendingCount |-> body.targetedAttendees.num]

\* the row INSERT INTO events (creatorEmail, ..., eventEndTime) VALUES (?, ..., ?)
\* produces at second `now`: eventDuration is NULL, status, created_at and the
\* counters take their defaults
NewEventRow(body, now) ==
    [creatorEmail |-> body.creatorEmail, eventName |-> body.eventName,
     description |-> body.description,
     targetedAttendees |-> IntegerAffinity(body.targetedAttendees),
     eventDate |-> body.eventDate, eventStartTime |-> body.eventStartTime,
     eventEndTime |-> body.eventEndTime,
     eventDuration |-> JsNull,
     status |-> "Created",
     created_at |-> now,
     attendingCount |-> 0, notAttendingCount |-> 0, maybeCount |-> 0, pendingCount |-> 0]

NoJournal == [events |-> <<>>, eventAttendees |-> <<>>, attendeeDetails |-> <<>>]

\* BEGIN TRANSACTION, on a connection with no transaction open
Begin(db) ==
    [db EXCEPT !.inTransaction = TRUE,
               !.journal = [events |-> db.events, eventAttendees |-> db.eventAttendees,
                            attendeeDetails |-> db.attendeeDetails]]

\* COMMIT, on a connection with a transaction open
Commit(db) == [db EXCEPT !.inTransaction = FALSE, !.journal = NoJournal]

\* the transaction ended without its writes being undone
Rollback_KeepsWrites(db) == [db EXCEPT !.inTransaction = FALSE, !.journal = NoJournal]

\* ROLLBACK, on a connection with a transaction open
Rollback(db) ==
    [events |-> db.journal.events, eventAttendees |-> db.journal.eventAttendees,
     attendeeDetails |-> db.journal.attendeeDetails,
     inTransaction |-> FALSE, journal |-> NoJournal]

\* the WHERE without its second condition: every row of the event matches
MatchingRows_AnyEmail(rows, eventId, attendeeEmail) ==
    {i \in DOMAIN rows : rows[i].eventId = eventId}

\* ids of the rows WHERE eventId = ? AND attendeeEmail = ?
MatchingRows(rows, eventId, attendeeEmail) ==
    {i \in DOMAIN rows : rows[i].eventId = eventId /\ rows[i].attendeeEmail = attendeeEmail}

Min(S) == CHOOSE x \in S : \A y \in S : x <= y

\* the lookup with its two parameters bound in the wrong order: no row matches
SelectExistingAttendee_MatchesNothing(db, eventId, attendeeEmail) == UndefinedStatus

\* SELECT responseStatus FROM eventAttendees WHERE eventId = ? AND attendeeEmail = ?
\* with .get(): the first matching row, or undefined
SelectExistingAttendee(db, eventId, attendeeEmail) ==
    LET m == MatchingRows(db.eventAttendees, eventId, attendeeEmail)
    IN  IF m = {} THEN UndefinedStatus
        ELSE Val(db.eventAttendees[Min(m)].responseStatus)

\* the statement written as a DELETE: the rows that match are removed
UpdateAttendee_DeletesRow(db, responseStatus, eventId, attendeeEmail) ==
    [db EXCEPT !.eventAttendees =
        SelectSeq(@, LAMBDA row : ~(row.eventId = eventId /\ row.attendeeEmail = attendeeEmail))]

\* the update whose WHERE clause names the event alone
UpdateAttendee_AnyEmail(db, responseStatus, eventId, attendeeEmail) ==
    [db EXCEPT !.eventAttendees =
        [i \in DOMAIN @ |->
            IF @[i].eventId = eventId
            THEN [@[i] EXCEPT !.responseStatus = responseStatus]
            ELSE @[i]]]

\* UPDATE eventAttendees SET responseStatus = ?, notes = ?, rsvpDate = CURRENT_TIMESTAMP
\* WHERE eventId = ? AND attendeeEmail = ?
UpdateAttendee(db, responseStatus, eventId, attendeeEmail) ==
    [db EXCEPT !.eventAttendees =
        [i \in DOMAIN @ |->
            IF i \in MatchingRows(db.eventAttendees, eventId, attendeeEmail)
            THEN [@[i] EXCEPT !.responseStatus = responseStatus]
            ELSE @[i]]]

\* the existence check that passes over cancelled events
EventExists_NotCancelled(db, eventId) ==
    eventId \in DOMAIN db.events /\ db.events[eventId].status # "Cancelled"

\* the existence check that takes any id for an event
EventExists_Always(db, eventId) == TRUE

\* SELECT id FROM events WHERE id = ?
EventExists(db, eventId) == eventId \in DOMAIN db.events

\* UNIQUE (eventId, attendeeEmail) would be broken by this insert
UniqueViolated(db, eventId, attendeeEmail) ==
    MatchingRows(db.eventAttendees, eventId, attendeeEmail) # {}

\* FOREIGN KEY (eventId) REFERENCES events(id), and the CHECK on responseStatus
InsertAllowed(db, eventId, responseStatus) ==
    /\ eventId \in DOMAIN db.events
    /\ responseStatus \in allowedStatuses

\* the insert that leaves responseStatus to the column default
InsertAttendee_DefaultStatus(db, eventId, attendeeEmail, responseStatus) ==
    [db EXCEPT !.eventAttendees =
        Append(@, [eventId |-> eventId, attendeeEmail |-> attendeeEmail,
                   responseStatus |-> "Pending"])]

\* INSERT INTO eventAttendees (eventId, attendeeEmail, responseStatus, notes) VALUES (?, ?, ?, ?)
\* when no constraint fails: the new row takes the next id
InsertAttendee(db, eventId, attendeeEmail, responseStatus) ==
    [db EXCEPT !.eventAttendees =
        Append(@, [eventId |-> eventId, attendeeEmail |-> attendeeEmail,
                   responseStatus |-> responseStatus])]

\* notes || null: the notes that are bound to the statement
NotesOrNull(notes) == IF TruthyStatus(notes) THEN notes ELSE UndefinedStatus

\* the update that leaves rsvpDate as it was
UpdateAttendeeDetails_KeepsRsvpDate(db, notes, now, eventId, attendeeEmail) ==
    [db EXCEPT !.attendeeDetails =
        [i \in DOMAIN @ |->
            IF i \in MatchingRows(db.eventAttendees, eventId, attendeeEmail)
            THEN [@[i] EXCEPT !.notes = NotesOrNull(notes)]
            ELSE @[i]]]

\* the same UPDATE eventAttendees, columns notes and rsvpDate, at second `now`
UpdateAttendeeDetails(db, notes, now, eventId, attendeeEmail) ==
    [db EXCEPT !.attendeeDetails =
        [i \in DOMAIN @ |->
            IF i \in MatchingRows(db.eventAttendees, eventId, attendeeEmail)
            THEN [@[i] EXCEPT !.notes = NotesOrNull(notes), !.rsvpDate = now]
            ELSE @[i]]]

\* the same INSERT INTO eventAttendees, columns notes, rsvpDate and created_at:
\* the two dates take DEFAULT CURRENT_TIMESTAMP
InsertAttendeeDetails(db, notes, now) ==
    [db EXCEPT !.attendeeDetails =
        Append(@, [notes |-> NotesOrNull(notes), rsvpDate |-> now, created_at |-> now])]

\* the UPDATE without its WHERE: every event counts the response
AddToCounter_AllEvents(db, column, delta, eventId) ==
    [db EXCEPT !.events = [i \in DOMAIN @ |-> [@[i] EXCEPT ![column] = @ + delta]]]

\* UPDATE events SET <column> = <column> + delta WHERE id = ?
AddToCounter(db, column, delta, eventId) ==
    [db EXCEPT !.events =
        [i \in DOMAIN @ |-> IF i = eventId THEN [@[i] EXCEPT ![column] = @ + delta] ELSE @[i]]]

\* the chain with its Pending arm missing
DecrementOldCounter_NoPending(db, oldResponseStatus, eventId) ==
    IF oldResponseStatus = "Attending" THEN AddToCounter(db, "attendingCount", -1, eventId)
    ELSE IF oldResponseStatus = "Not Attending" THEN AddToCounter(db, "notAttendingCount", -1, eventId)
    ELSE IF oldResponseStatus = "Maybe" THEN AddToCounter(db, "maybeCount", -1, eventId)
    ELSE db

\* the decrement taken from pendingCount whatever the old status was
DecrementOldCounter_AlwaysPending(db, oldResponseStatus, eventId) ==
    AddToCounter(db, "pendingCount", -1, eventId)

\* "Decrement the old counter": the if / else-if chain over oldResponseStatus
DecrementOldCounter(db, oldResponseStatus, eventId) ==
    IF oldResponseStatus = "Attending" THEN AddToCounter(db, "attendingCount", -1, eventId)
    ELSE IF oldResponseStatus = "Not Attending" THEN AddToCounter(db, "notAttendingCount", -1, eventId)
    ELSE IF oldResponseStatus = "Maybe" THEN AddToCounter(db, "maybeCount", -1, eventId)
    ELSE IF oldResponseStatus = "Pending" THEN AddToCounter(db, "pendingCount", -1, eventId)
    ELSE db

\* the chain of the update branch without an arm for Pending
IncrementNewCounter_NoPending(db, finalResponseStatus, eventId) ==
    IF finalResponseStatus = "Attending" THEN AddToCounter(db, "attendingCount", 1, eventId)
    ELSE IF finalResponseStatus = "Not Attending" THEN AddToCounter(db, "notAttendingCount", 1, eventId)
    ELSE IF finalResponseStatus = "Maybe" THEN AddToCounter(db, "maybeCount", 1, eventId)
    ELSE db

\* the chain with the Maybe arm writing the column of the arm above it
IncrementNewCounter_MaybeArmWrongColumn(db, finalResponseStatus, eventId) ==
    IF finalResponseStatus = "Attending" THEN AddToCounter(db, "attendingCount", 1, eventId)
    ELSE IF finalResponseStatus = "Not Attending" THEN AddToCounter(db, "notAttendingCount", 1, eventId)
    ELSE IF finalResponseStatus = "Maybe" THEN AddToCounter(db, "notAttendingCount", 1, eventId)
    ELSE IF finalResponseStatus = "Pending" THEN AddToCounter(db, "pendingCount", 1, eventId)
    ELSE db

\* "Increment the new counter" of the update branch
IncrementNewCounter(db, finalResponseStatus, eventId) ==
    IF finalResponseStatus = "Attending" THEN AddToCounter(db, "attendingCount", 1, eventId)
    ELSE IF finalResponseStatus = "Not Attending" THEN AddToCounter(db, "notAttendingCount", 1, eventId)
    ELSE IF finalResponseStatus = "Maybe" THEN AddToCounter(db, "maybeCount", 1, eventId)
    ELSE IF finalResponseStatus = "Pending" THEN AddToCounter(db, "pendingCount", 1, eventId)
    ELSE db

\* the insert branch with the Maybe arm of the chain missing
IncrementInsertedCounter_NoMaybe(db, finalResponseStatus, eventId) ==
    IF finalResponseStatus = "Attending" THEN AddToCounter(db, "attendingCount", 1, eventId)
    ELSE IF finalResponseStatus = "Not Attending" THEN AddToCounter(db, "notAttendingCount", 1, eventId)
    ELSE IF finalResponseStatus = "Pending" THEN AddToCounter(db, "pendingCount", 1, eventId)
    ELSE db

\* "Increment the new counter" of the insert branch
IncrementInsertedCounter(db, finalResponseStatus, eventId) ==
    IF finalResponseStatus = "Attending" THEN AddToCounter(db, "attendingCount", 1, eventId)
    ELSE IF finalResponseStatus = "Not Attending" THEN AddToCounter(db, "notAttendingCount", 1, eventId)
    ELSE IF finalResponseStatus = "Maybe" THEN AddToCounter(db, "maybeCount", 1, eventId)
    ELSE IF finalResponseStatus = "Pending" THEN AddToCounter(db, "pendingCount", 1, eventId)
    ELSE db

(***************************************************************************)
(* POST /api/events/:eventId/attendees.  A handler is its request, the     *)
(* statement it is about to run (pc), its local oldResponseStatus, the     *)
(* error it caught and the status code it answered (0: none yet).          *)
(*                                                                         *)
(* A store failure is an input of the run: the statement at fault.at       *)
(* throws instead of running.  SQLite either leaves the transaction open   *)
(* (kind "open": SQLITE_BUSY, SQLITE_CONSTRAINT ...) or has rolled it back *)
(* by itself before the error reaches the caller (kind "auto":             *)
(* SQLITE_FULL, SQLITE_IOERR, SQLITE_NOMEM).                               *)
(***************************************************************************)
NoFault == [at |-> "none", kind |-> "open"]

FaultPoints ==
    {"begin", "lookup", "update", "decrement", "increment", "commitUpdate",
     "exists", "insert", "incrementInserted", "commitInsert"}

Faults == {NoFault} \cup [at : FaultPoints, kind : {"open", "auto"}]

\* now: the second at which the request is handled; tx: the transaction statements
\* issued so far, each with whether a transaction was active and whether it ran
NewHandler(req) ==
    [req |-> req, pc |-> "validate", old |-> "", err |-> "", code |-> 0, now |-> 0,
     tx |-> <<>>]

\* notes of req.body: undefined when the body has no such key
NotesOf(req) == IF "notes" \in DOMAIN req THEN req.notes ELSE UndefinedStatus

\* db.exec of a transaction statement: what the handler has issued
Issue(h, stmt, db, ok) ==
    [h EXCEPT !.tx = Append(@, [stmt |-> stmt, active |-> db.inTransaction, ok |-> ok])]

\* the handler after the statement at its pc was issued and failed in the store
IssueFailed(h, db) ==
    IF h.pc = "begin" THEN Issue(h, "BEGIN", db, FALSE)
    ELSE IF h.pc \in {"commitUpdate", "commitInsert"} THEN Issue(h, "COMMIT", db, FALSE)
    ELSE h

\* const finalResponseStatus = responseStatus || 'Pending'
FinalResponseStatus(responseStatus) ==
    IF TruthyStatus(responseStatus) THEN responseStatus.value ELSE "Pending"

\* a statement threw: control passes to the catch block
Throw(h, db, message, kind) ==
    [h |-> [h EXCEPT !.pc = "catch", !.err = message],
     db |-> IF kind = "auto" /\ db.inTransaction THEN Rollback(db) ELSE db]

Goto(h, db, pc) == [h |-> [h EXCEPT !.pc = pc], db |-> db]

Respond(h, db, code) == [h |-> [h EXCEPT !.pc = "done", !.code = code], db |-> db]

\* the validation with the test eventId <= 0 left out
Validate_NoRangeCheck(h, db) ==
    LET eventId == ParseInt(h.req.eventId)
        attendeeEmail == h.req.attendeeEmail
        responseStatus == h.req.responseStatus
    IN  IF IsNaN(eventId) THEN Respond(h, db, 400)
        ELSE IF ~TruthyEmail(attendeeEmail) THEN Respond(h, db, 400)
        ELSE IF ~EmailRegexTest(attendeeEmail.value) THEN Respond(h, db, 400)
        ELSE IF TruthyStatus(responseStatus) /\ responseStatus.value \notin allowedStatuses
             THEN Respond(h, db, 400)
        ELSE Goto(h, db, "begin")

\* the validation with the regular-expression test of the e-mail left out
Validate_NoEmailRegex(h, db) ==
    LET eventId == ParseInt(h.req.eventId)
        attendeeEmail == h.req.attendeeEmail
        responseStatus == h.req.responseStatus
    IN  IF IsNaN(eventId) \/ (~IsNaN(eventId) /\ eventId <= 0) THEN Respond(h, db, 400)
        ELSE IF ~TruthyEmail(attendeeEmail) THEN Respond(h, db, 400)
        ELSE IF TruthyStatus(responseStatus) /\ responseStatus.value \notin allowedStatuses
             THEN Respond(h, db, 400)
        ELSE Goto(h, db, "begin")

\* the server-side validation, before the try block
Validate(h, db) ==
    LET eventId == ParseInt(h.req.eventId)
        attendeeEmail == h.req.attendeeEmail
        responseStatus == h.req.responseStatus
    IN  IF IsNaN(eventId) \/ (~IsNaN(eventId) /\ eventId <= 0) THEN Respond(h, db, 400)
        ELSE IF ~TruthyEmail(attendeeEmail) THEN Respond(h, db, 400)
        ELSE IF ~EmailRegexTest(attendeeEmail.value) THEN Respond(h, db, 400)
        ELSE IF TruthyStatus(responseStatus) /\ responseStatus.value \notin allowedStatuses
             THEN Respond(h, db, 400)
        ELSE Goto(h, db, "begin")

\* one statement of the try block (or the catch block) of the handler
Exec(h, db, fault) ==
    LET eventId == ParseInt(h.req.eventId)
        attendeeEmail == h.req.attendeeEmail.value
        finalResponseStatus == FinalResponseStatus(h.req.responseStatus)
        notes == NotesOf(h.req)
    IN
    IF h.pc = "validate" THEN Validate(h, db)
    ELSE IF h.pc = fault.at THEN Throw(IssueFailed(h, db), db, "store failure", fault.kind)
    ELSE IF h.pc = "begin" THEN
        IF db.inTransaction
        THEN Throw(Issue(h, "BEGIN", db, FALSE), db,
                   "cannot start a transaction within a transaction", "open")
        ELSE Goto(Issue(h, "BEGIN", db, TRUE), Begin(db), "lookup")
    ELSE IF h.pc = "lookup" THEN
        LET existingAttendee == SelectExistingAttendee(db, eventId, attendeeEmail)
        IN  IF existingAttendee.defined
            THEN [h |-> [h EXCEPT !.pc = "update", !.old = existingAttendee.value], db |-> db]
            ELSE Goto(h, db, "exists")
    ELSE IF h.pc = "update" THEN
        Goto(h, UpdateAttendeeDetails(
                    UpdateAttendee(db, finalResponseStatus, eventId, attendeeEmail),
                    notes, h.now, eventId, attendeeEmail),
             "decrement")
    ELSE IF h.pc = "decrement" THEN
        Goto(h, DecrementOldCounter(db, h.old, eventId), "increment")
    ELSE IF h.pc = "increment" THEN
        Goto(h, IncrementNewCounter(db, finalResponseStatus, eventId), "commitUpdate")
    ELSE IF h.pc = "commitUpdate" THEN
        IF db.inTransaction THEN Respond(Issue(h, "COMMIT", db, TRUE), Commit(db), 200)
        ELSE Throw(Issue(h, "COMMIT", db, FALSE), db,
                   "cannot commit - no transaction is active", "open")
    ELSE IF h.pc = "exists" THEN
        IF EventExists(db, eventId) THEN Goto(h, db, "insert")
        ELSE IF db.inTransaction THEN Respond(Issue(h, "ROLLBACK", db, TRUE), Rollback(db), 404)
        ELSE Throw(Issue(h, "ROLLBACK", db, FALSE), db,
                   "cannot rollback - no transaction is active", "open")
    ELSE IF h.pc = "insert" THEN
        IF UniqueViolated(db, eventId, attendeeEmail)
        THEN Throw(h, db, "UNIQUE constraint failed: eventAttendees.eventId, eventAttendees.attendeeEmail", "open")
        ELSE IF ~InsertAllowed(db, eventId, finalResponseStatus)
        THEN Throw(h, db, "constraint failed", "open")
        ELSE Goto(h, InsertAttendeeDetails(
                        InsertAttendee(db, eventId, attendeeEmail, finalResponseStatus),
                        notes, h.now),
                  "incrementInserted")
    ELSE IF h.pc = "incrementInserted" THEN
        Goto(h, IncrementInsertedCounter(db, finalResponseStatus, eventId), "commitInsert")
    ELSE IF h.pc = "commitInsert" THEN
        IF db.inTransaction THEN Respond(Issue(h, "COMMIT", db, TRUE), Commit(db), 201)
        ELSE Throw(Issue(h, "COMMIT", db, FALSE), db,
                   "cannot commit - no transaction is active", "open")
    ELSE \* h.pc = "catch": db.exec('ROLLBACK;') and the error response
        IF ~db.inTransaction
        THEN \* ROLLBACK throws out of the handler; Express answers 500
             Respond(Issue(h, "ROLLBACK", db, FALSE), db, 500)
        ELSE IF h.err = "UNIQUE constraint failed: eventAttendees.eventId, eventAttendees.attendeeEmail"
        THEN Respond(Issue(h, "ROLLBACK", db, TRUE), Rollback(db), 409)
        ELSE Respond(Issue(h, "ROLLBACK", db, TRUE), Rollback(db), 500)

\* an asynchronous driver: the handler awaits the result of its lookup
AwaitsAfter_Lookup(pc) == pc = "lookup"

\* the handler has no await and better-sqlite3 is synchronous: it never gives
\* up the thread between two statements
AwaitsAfter(pc) == FALSE

RECURSIVE Run(_, _, _)
\* run the handler from its pc until it has answered or awaits
Run(h, db, fault) ==
    CHOOSE end \in {IF r.h.pc = "done" \/ AwaitsAfter(h.pc) THEN r ELSE Run(r.h, r.db, fault) :
                     r \in {Exec(h, db, fault)}} : TRUE

(***************************************************************************)
(* The state machine.  Every handler is one action: Node runs a handler    *)
(* to its end (or to its next await) before it starts another.  `last` is  *)
(* what a client and the console see of the request handled last; a        *)
(* specification that passes observe = FALSE leaves it blank and explores  *)
(* the store alone.                                                        *)
(***************************************************************************)
Db == [events |-> events, eventAttendees |-> eventAttendees,
       attendeeDetails |-> attendeeDetails,
       inTransaction |-> inTransaction, journal |-> journal]

\* a request with no body
NoBody ==
    [creatorEmail |-> JsUndefined, eventName |-> JsUndefined, description |-> JsUndefined,
     targetedAttendees |-> JsUndefined, eventDate |-> JsUndefined,
     eventStartTime |-> JsUndefined, eventEndTime |-> JsUndefined]

\* op: the endpoint; eventId: the :eventId or :id route parameter; body: the body
\* of a create-event request; code: the status code answered; old: what the row
\* written held before (the old responseStatus of an upsert, the old status of a
\* publish or cancel); result: the rows or the id of the JSON answer
NoRequest ==
    [op |-> "none", eventId |-> <<>>, attendeeEmail |-> UndefinedEmail,
     responseStatus |-> UndefinedStatus, body |-> NoBody, fault |-> "none", code |-> 0,
     old |-> "", result |-> <<>>, notes |-> UndefinedStatus, tx |-> <<>>]

Observed(observe, request) == IF observe THEN request ELSE NoRequest

\* server.ts opens event.db after the two init scripts created the (empty) tables
Init ==
    /\ events = <<>>
    /\ eventAttendees = <<>>
    /\ inTransaction = FALSE
    /\ journal = NoJournal
    /\ suspended = {}
    /\ last = NoRequest
    /\ latest = {}
    /\ attendeeDetails = <<>>
    /\ clock = 0

\* POST /api/events/:eventId/attendees, handled `elapsed` seconds after the
\* request before it: a handler, new or resumed, runs until it answers or awaits
SubmitResponseAt(h, fault, elapsed, observe) ==
    \E r \in {Run([h EXCEPT !.now = clock + elapsed], Db, fault)} :
        /\ clock + elapsed <= MaxClock
        /\ clock' = clock + elapsed
        /\ attendeeDetails' = r.db.attendeeDetails
        /\ fault = NoFault \/ r.h.err = "store failure"
        /\ Len(r.db.eventAttendees) <= MaxRows
        /\ events' = r.db.events
        /\ eventAttendees' = r.db.eventAttendees
        /\ inTransaction' = r.db.inTransaction
        /\ journal' = r.db.journal
        /\ suspended' = (suspended \ {h}) \cup (IF r.h.pc = "done" THEN {} ELSE {r.h})
        /\ last' = Observed(observe,
                    [NoRequest EXCEPT !.op = "submitResponse", !.eventId = h.req.eventId,
                                      !.attendeeEmail = h.req.attendeeEmail,
                                      !.responseStatus = h.req.responseStatus,
                                      !.fault = fault.at, !.code = r.h.code, !.old = r.h.old,
                                      !.notes = NotesOf(h.req), !.tx = r.h.tx])
        /\ latest' = IF r.h.code \in {200, 201}
                      THEN LET e == ParseInt(h.req.eventId)
                               m == h.req.attendeeEmail.value
                           IN  {x \in latest : ~(x.eventId = e /\ x.attendeeEmail = m)}
                                 \cup {[eventId |-> e, attendeeEmail |-> m,
                                        responseStatus |-> FinalResponseStatus(h.req.responseStatus)]}
                      ELSE latest

\* POST /api/events/:eventId/attendees, within the second of the request before it
SubmitResponse(h, fault, observe) == SubmitResponseAt(h, fault, 0, observe)

\* a create-event body that passes the validation
ValidBody ==
    [creatorEmail |-> JsString("o@x.c"), eventName |-> JsString("n"),
     description |-> JsString("d"), targetedAttendees |-> JsNumber(5, 1),
     eventDate |-> JsString("2025-08-15"), eventStartTime |-> JsString("18:00"),
     eventEndTime |-> JsString("19:00")]

\* the validation that tests targetedAttendees for falsiness only
CreateEventValid_TruthyAttendees(body) ==
    /\ Truthy(body.creatorEmail) /\ Truthy(body.eventName) /\ Truthy(body.description)
    /\ Truthy(body.targetedAttendees)
    /\ Truthy(body.eventDate) /\ Truthy(body.eventStartTime) /\ Truthy(body.eventEndTime)

\* the server-side validation of POST /api/create-event lets the body through:
\* none of its three tests answers 400
CreateEventValid(body) ==
    /\ ~ \/ ~Truthy(body.creatorEmail)
         \/ ~Truthy(body.eventName)
         \/ ~Truthy(body.description)
         \/ body.targetedAttendees = JsUndefined
         \/ ~Truthy(body.eventDate)
         \/ ~Truthy(body.eventStartTime)
         \/ ~Truthy(body.eventEndTime)
    /\ ~ \/ TypeOf(body.creatorEmail) # "string"
         \/ TypeOf(body.eventName) # "string"
         \/ TypeOf(body.description) # "string"
         \/ TypeOf(body.eventDate) # "string"
         \/ TypeOf(body.eventStartTime) # "string"
         \/ TypeOf(body.eventEndTime) # "string"
    /\ ~ \/ TypeOf(body.targetedAttendees) # "number"
         \/ body.targetedAttendees.num <= 0
         \/ ~NumberIsInteger(body.targetedAttendees)

\* CURRENT_TIMESTAMP, in whole seconds, `elapsed` seconds after the request before
CurrentTimestamp(elapsed) == clock + elapsed

\* POST /api/create-event, handled `elapsed` seconds after the event before it
\* was created
CreateEventAt(body, elapsed, observe) ==
    /\ Len(events) < MaxEvents
    /\ clock + elapsed <= MaxClock
    /\ clock' = clock + elapsed
    /\ events' = IF CreateEventValid(body)
                  THEN Append(events, NewEventRow(body, CurrentTimestamp(elapsed)))
                  ELSE events
    /\ last' = Observed(observe,
                [NoRequest EXCEPT !.op = "createEvent",
                                  !.body = body,
                                  !.code = IF CreateEventValid(body) THEN 201 ELSE 400,
                                  !.result = IF CreateEventValid(body)
                                             THEN <<[eventId |-> Len(events) + 1, changes |-> 1]>>
                                             ELSE <<>>])
    /\ UNCHANGED <<eventAttendees, inTransaction, journal, suspended, latest, attendeeDetails>>

\* POST /api/create-event, within the second of the request before it
CreateEvent(body, observe) == CreateEventAt(body, 0, observe)

\* the integer a TEXT parameter compares as against the INTEGER column id:
\* a string of decimal digits converts, anything else matches no row
SqlIntegerValue(str) ==
    IF str # <<>> /\ \A i \in 1..Len(str) : str[i] \in Digits THEN DigitPrefix(str, 0) ELSE NaN

\* the update guarded by the current status: only an event that is Created moves
SetStatus_OnlyFromCreated(id, status, observe) ==
    LET n == SqlIntegerValue(id)
        changes == IF n \in DOMAIN events /\ events[n].status = "Created" THEN 1 ELSE 0
    IN  /\ events' = [i \in DOMAIN events |->
                        IF i = n /\ changes = 1 THEN [events[i] EXCEPT !.status = status]
                        ELSE events[i]]
        /\ last' = Observed(observe,
                    [NoRequest EXCEPT !.eventId = id,
                                      !.op = IF status = "Published" THEN "publish" ELSE "cancel",
                                      !.code = IF changes = 0 THEN 404 ELSE 200,
                                      !.old = IF changes = 0 THEN "" ELSE events[n].status])
        /\ UNCHANGED <<eventAttendees, inTransaction, journal, suspended, latest,
                       attendeeDetails, clock>>

\* UPDATE events SET status = ? WHERE id = ?, and the answer by info.changes
SetStatus(id, status, observe) ==
    LET n == SqlIntegerValue(id)
        changes == IF n \in DOMAIN events THEN 1 ELSE 0
    IN  /\ events' = [i \in DOMAIN events |->
                        IF i = n THEN [events[i] EXCEPT !.status = status] ELSE events[i]]
        /\ last' = Observed(observe,
                    [NoRequest EXCEPT !.eventId = id,
                                      !.op = IF status = "Published" THEN "publish" ELSE "cancel",
                                      !.code = IF changes = 0 THEN 404 ELSE 200,
                                      !.old = IF changes = 0 THEN "" ELSE events[n].status])
        /\ UNCHANGED <<eventAttendees, inTransaction, journal, suspended, latest,
                       attendeeDetails, clock>>

\* PUT /api/events/:id/publish
Publish(id, observe) == SetStatus(id, "Published", observe)

\* the cancel route writing the status Archived
Cancel_Archives(id, observe) == SetStatus(id, "Archived", observe)

\* PUT /api/events/:id/cancel
Cancel(id, observe) == SetStatus(id, "Cancelled", observe)

\* EditEvent.handleSubmit: PUT /api/events/:id with the edited event.  The
\* server has no route for it: Express answers 404 and no statement runs
EditEvent(id, body, observe) ==
    /\ last' = Observed(observe,
                [NoRequest EXCEPT !.op = "editEvent", !.eventId = id, !.body = body,
                                  !.code = 404])
    /\ UNCHANGED <<events, eventAttendees, inTransaction, journal, suspended, latest,
                   attendeeDetails, clock>>

\* the row a SELECT * FROM events returns for event n
EventRecord(n) == [id |-> n] @@ events[n]

\* GET /api/events/:id
GetEvent(id, observe) ==
    LET n == SqlIntegerValue(id)
        event == IF n \in DOMAIN events THEN <<EventRecord(n)>> ELSE <<>>
    IN  /\ last' = Observed(observe,
                    [NoRequest EXCEPT !.op = "getEvent", !.eventId = id,
                                      !.code = IF event = <<>> THEN 404 ELSE 200,
                                      !.result = event])
        /\ UNCHANGED <<events, eventAttendees, inTransaction, journal, suspended, latest,
                       attendeeDetails, clock>>

\* the row a SELECT * FROM eventAttendees returns for row i: the id is the
\* AUTOINCREMENT key, which in a table nothing is deleted from is the position
AttendeeRecord(i) == [id |-> i] @@ eventAttendees[i] @@ attendeeDetails[i]

\* the orders a SELECT without ORDER BY may return the rows of `rows` in
RowOrders(rows) ==
    {p \in [1 .. Cardinality(rows) -> rows] : \A i, j \in DOMAIN p : p[i] = p[j] => i = j}

\* the WHERE that selects every row of the table
AttendeesOfEvent_AllRows(eventId) == DOMAIN eventAttendees

\* SELECT * FROM eventAttendees WHERE eventId = ?
AttendeesOfEvent(eventId) ==
    {i \in DOMAIN eventAttendees : eventAttendees[i].eventId = eventId}

\* GET /api/events/:eventId/attendees
ListAttendeesForEvent(id, observe) ==
    LET eventId == ParseInt(id)
        request == [NoRequest EXCEPT !.op = "listAttendees", !.eventId = id]
    IN  /\ \/ /\ IsNaN(eventId) \/ eventId <= 0
              /\ last' = Observed(observe, [request EXCEPT !.code = 400])
           \/ /\ ~(IsNaN(eventId) \/ eventId <= 0)
              /\ ~EventExists(Db, eventId)
              /\ last' = Observed(observe, [request EXCEPT !.code = 404])
           \/ /\ ~(IsNaN(eventId) \/ eventId <= 0)
              /\ EventExists(Db, eventId)
              /\ \E order \in RowOrders(AttendeesOfEvent(eventId)) :
                    last' = Observed(observe,
                                [request EXCEPT !.code = 200,
                                    !.result = [k \in DOMAIN order |-> AttendeeRecord(order[k])]])
        /\ UNCHANGED <<events, eventAttendees, inTransaction, journal, suspended, latest,
                       attendeeDetails, clock>>

\* the join that pairs a response with the event that has the id of the response
JoinedRows_OnRowId(attendeeEmail) ==
    {i \in DOMAIN eventAttendees :
        /\ i \in DOMAIN events
        /\ eventAttendees[i].attendeeEmail = attendeeEmail}

\* FROM eventAttendees JOIN events ON eventAttendees.eventId = events.id
\* WHERE eventAttendees.attendeeEmail = ?: the responses that are joined
JoinedRows(attendeeEmail) ==
    {i \in DOMAIN eventAttendees :
        /\ eventAttendees[i].eventId \in DOMAIN events
        /\ eventAttendees[i].attendeeEmail = attendeeEmail}

\* the row the join returns for response i: the event the join pairs it with
AttendeeEvent(i) ==
    LET n == eventAttendees[i].eventId
    IN  [id |-> n, eventName |-> events[n].eventName, eventDate |-> events[n].eventDate,
         eventStartTime |-> events[n].eventStartTime,
         eventEndTime |-> events[n].eventEndTime,
         responseStatus |-> eventAttendees[i].responseStatus]

\* GET /api/attendee/:email/events
ListEventsForAttendee(email, observe) ==
    LET request == [NoRequest EXCEPT !.op = "listEvents", !.attendeeEmail = email]
    IN  /\ \/ /\ ~TruthyEmail(email)
              /\ last' = Observed(observe, [request EXCEPT !.code = 400])
           \/ /\ TruthyEmail(email)
              /\ \E order \in RowOrders(JoinedRows(email.value)) :
                    last' = Observed(observe,
                                [request EXCEPT !.code = 200,
                                    !.result = [k \in DOMAIN order |-> AttendeeEvent(order[k])]])
        /\ UNCHANGED <<events, eventAttendees, inTransaction, journal, suspended, latest,
                       attendeeDetails, clock>>

\* the columns the SELECT of GET /api/events-with-rsvp-counts names
rsvpCountsColumns ==
    {"id", "creatorEmail", "eventName", "description", "targetedAttendees", "eventDate",
     "eventTime", "created_at", "attendingCount", "notAttendingCount", "maybeCount",
     "pendingCount"}

\* the orders ORDER BY created_at DESC may return the events in: rows with equal
\* created_at come in any order
NewestFirstOrders ==
    {p \in [DOMAIN events -> DOMAIN events] :
        /\ \A i, j \in DOMAIN events : p[i] = p[j] => i = j
        /\ \A i, j \in DOMAIN events :
              i < j => events[p[i]].created_at >= events[p[j]].created_at}

\* one row of the answer of GET /api/events-with-rsvp-counts
EventWithRsvpCounts(n) ==
    [id |-> n, created_at |-> events[n].created_at,
     attendingCount |-> events[n].attendingCount,
     notAttendingCount |-> events[n].notAttendingCount,
     maybeCount |-> events[n].maybeCount, pendingCount |-> events[n].pendingCount,
     totalRsvps |-> events[n].attendingCount + events[n].notAttendingCount
                      + events[n].maybeCount + events[n].pendingCount]

\* GET /api/events-with-rsvp-counts: db.prepare throws "no such column" when the
\* SELECT names a column the table does not have, and the catch block answers 500
ListEventsWithCounts(observe) ==
    /\ IF rsvpCountsColumns \subseteq eventsColumns
       THEN \E p \in NewestFirstOrders :
               last' = Observed(observe,
                        [NoRequest EXCEPT !.op = "listEventsWithCounts", !.code = 200,
                                          !.result = [k \in DOMAIN events |->
                                                        EventWithRsvpCounts(p[k])]])
       ELSE last' = Observed(observe,
                        [NoRequest EXCEPT !.op = "listEventsWithCounts", !.code = 500])
    /\ UNCHANGED <<events, eventAttendees, inTransaction, journal, suspended, latest,
                   attendeeDetails, clock>>

(***************************************************************************)
(* Inputs.                                                                 *)
(***************************************************************************)
EmailA == <<"a", "@", "x", ".", "c">>
EmailB == <<"b", "@", "x", ".", "c">>

\* route parameters naming the events that can exist, and one that never does
IdParams == {<<"1">>, <<"2">>, <<"9">>}

StatusInputs == {UndefinedStatus} \cup {Val(s) : s \in allowedStatuses}

\* requests that pass the validation
Requests ==
    [eventId : IdParams, attendeeEmail : {Val(EmailA), Val(EmailB)},
     responseStatus : StatusInputs]

HandlersOf(requests) == {NewHandler(req) : req \in requests} \cup suspended

(***************************************************************************)
(* Spec: events are created and RSVPs submitted, every response observed.  *)
(***************************************************************************)
Next ==
    \/ CreateEvent(ValidBody, TRUE)
    \/ \E h \in HandlersOf(Requests) : SubmitResponse(h, NoFault, TRUE)

Spec == Init /\ [][Next]_vars

(***************************************************************************)
(* SpecStore: the whole write API in any order, responses not recorded.    *)
(***************************************************************************)
NextStore ==
    \/ CreateEvent(ValidBody, FALSE)
    \/ \E id \in IdParams : Publish(id, FALSE)
    \/ \E id \in IdParams : Cancel(id, FALSE)
    \/ \E h \in HandlersOf(Requests) : SubmitResponse(h, NoFault, FALSE)

SpecStore == Init /\ [][NextStore]_vars

(***************************************************************************)
(* SpecFault: RSVPs of one attendee on two events, any statement of the    *)
(* transaction failing in either way; every response observed.             *)
(***************************************************************************)
FaultRequests ==
    [eventId : {<<"1">>, <<"2">>}, attendeeEmail : {Val(EmailA)},
     responseStatus : {UndefinedStatus, Val("Attending"), Val("Maybe")}]

NextFault ==
    \/ CreateEvent(ValidBody, TRUE)
    \/ \E h \in HandlersOf(FaultRequests), fault \in Faults : SubmitResponse(h, fault, TRUE)

SpecFault == Init /\ [][NextFault]_vars

(***************************************************************************)
(* SpecInput: requests as they come off the wire, malformed ones included. *)
(***************************************************************************)
RawIdParams ==
    {<<"1">>, <<"2">>, <<"7">>, <<"0">>, <<"-", "1">>, <<"a", "b", "c">>,
     <<"1", "a">>, <<" ", "1">>}

RawEmails == {Val(EmailA), UndefinedEmail, Val(<<>>), Val(<<"a", "@", "x">>)}

RawStatuses == {UndefinedStatus, Val("Attending"), Val("Yes"), Val("")}

RawRequests ==
    [eventId : RawIdParams, attendeeEmail : RawEmails, responseStatus : RawStatuses]

NextInput ==
    \/ CreateEvent(ValidBody, TRUE)
    \/ \E h \in HandlersOf(RawRequests) : SubmitResponse(h, NoFault, TRUE)

SpecInput == Init /\ [][NextInput]_vars

(***************************************************************************)
(* SpecEmail: requests with e-mails of every kind, while BEGIN or the       *)
(* lookup may fail.                                                        *)
(***************************************************************************)
EmailInputs ==
    {Val(EmailA), UndefinedEmail, Val(<<>>),
     Val(<<"a", "@", "x">>), Val(<<"a", "x", ".", "c">>), Val(<<"@", "x", ".", "c">>),
     Val(<<"a", "@", ".", "c">>), Val(<<"a", "@", "x", ".">>),
     Val(<<"a", " ", "@", "x", ".", "c">>), Val(<<"a", "@", "@", "x", ".", "c">>),
     Val(<<"a", "@", ".", "x", ".", "c">>)}

EmailRequests ==
    [eventId : {<<"1">>, <<"7">>, <<"0">>}, attendeeEmail : EmailInputs,
     responseStatus : {UndefinedStatus, Val("Maybe")}]

EmailFaults == {NoFault, [at |-> "begin", kind |-> "open"], [at |-> "lookup", kind |-> "auto"]}

NextEmail ==
    \/ CreateEvent(ValidBody, TRUE)
    \/ \E h \in HandlersOf(EmailRequests), fault \in EmailFaults : SubmitResponse(h, fault, TRUE)

SpecEmail == Init /\ [][NextEmail]_vars

(***************************************************************************)
(* SpecEvents: the event API (create, get, publish, cancel, the list with  *)
(* counts) with bodies of every kind, and RSVPs of one attendee on event   *)
(* 1; every response observed.                                             *)
(***************************************************************************)
OtherBody ==
    [creatorEmail |-> JsString("p@y.d"), eventName |-> JsString("m"),
     description |-> JsString("e"), targetedAttendees |-> JsNumber(1, 1),
     eventDate |-> JsString("2025-09-01"), eventStartTime |-> JsString("09:00"),
     eventEndTime |-> JsString("08:00")]

EventBodies ==
    {ValidBody, OtherBody, NoBody,
     [ValidBody EXCEPT !.eventDate = JsUndefined],
     [ValidBody EXCEPT !.eventName = JsString("")],
     [ValidBody EXCEPT !.creatorEmail = JsNumber(7, 1)],
     [ValidBody EXCEPT !.description = JsNull],
     [ValidBody EXCEPT !.eventEndTime = JsUndefined],
     [ValidBody EXCEPT !.targetedAttendees = JsUndefined],
     [ValidBody EXCEPT !.targetedAttendees = JsNull],
     [ValidBody EXCEPT !.targetedAttendees = JsString("5")],
     [ValidBody EXCEPT !.targetedAttendees = JsString("")],
     [ValidBody EXCEPT !.targetedAttendees = JsNumber(0, 1)],
     [ValidBody EXCEPT !.targetedAttendees = JsNumber(-1, 1)],
     [ValidBody EXCEPT !.targetedAttendees = JsNumber(5, 2)]}

EventIdParams == {<<"1">>, <<"2">>, <<"0", "1">>, <<"9", "9", "9">>, <<"a", "b", "c">>}

EventRequests ==
    [eventId : {<<"1">>}, attendeeEmail : {Val(EmailA)},
     responseStatus : {Val("Attending"), Val("Maybe")}]

NextEvents ==
    \/ \E body \in EventBodies, elapsed \in {0, 1} : CreateEventAt(body, elapsed, TRUE)
    \/ \E id \in EventIdParams : GetEvent(id, TRUE)
    \/ \E id \in EventIdParams : Publish(id, TRUE)
    \/ \E id \in EventIdParams : Cancel(id, TRUE)
    \/ ListEventsWithCounts(TRUE)
    \/ \E h \in HandlersOf(EventRequests) : SubmitResponse(h, NoFault, TRUE)
    \/ \E id \in {<<"1">>, <<"2">>} : EditEvent(id, OtherBody, TRUE)

SpecEvents == Init /\ [][NextEvents]_vars

(***************************************************************************)
(* SpecReads: the two lists of the attendee API, asked with ids and        *)
(* e-mails of every kind, between writes that are not recorded.            *)
(***************************************************************************)
ReadRequests ==
    [eventId : {<<"1">>, <<"2">>}, attendeeEmail : {Val(EmailA), Val(EmailB)},
     responseStatus : {Val("Attending"), Val("Maybe")}, notes : {UndefinedStatus}]

ReadEmails == {Val(EmailA), Val(EmailB), Val(<<"a", "@", "x">>)}

NextReads ==
    \/ \E body \in {ValidBody, OtherBody} : CreateEvent(body, FALSE)
    \/ \E h \in HandlersOf(ReadRequests) : SubmitResponse(h, NoFault, FALSE)
    \/ \E id \in RawIdParams : ListAttendeesForEvent(id, TRUE)
    \/ \E email \in ReadEmails : ListEventsForAttendee(email, TRUE)

SpecReads == Init /\ [][NextReads]_vars

(***************************************************************************)
(* SpecCommute: RSVPs of two attendees on two events, with and without     *)
(* notes; responses not recorded.                                          *)
(***************************************************************************)
CommuteRequests ==
    [eventId : {<<"1">>, <<"2">>}, attendeeEmail : {Val(EmailA), Val(EmailB)},
     responseStatus : {UndefinedStatus, Val("Attending")},
     notes : {UndefinedStatus, Val("n")}]

NextCommute ==
    \/ CreateEvent(ValidBody, FALSE)
    \/ \E h \in HandlersOf(CommuteRequests) : SubmitResponse(h, NoFault, FALSE)

SpecCommute == Init /\ [][NextCommute]_vars

(***************************************************************************)
(* SpecRsvp: RSVPs of two attendees on event 1, each handled in the second *)
(* of the request before it or a second later; every response observed.    *)
(***************************************************************************)
RsvpRequests ==
    [eventId : {<<"1">>}, attendeeEmail : {Val(EmailA), Val(EmailB)},
     responseStatus : {UndefinedStatus, Val("Attending")}, notes : {Val("n")}]

NextRsvp ==
    \/ CreateEvent(ValidBody, TRUE)
    \/ \E h \in HandlersOf(RsvpRequests), elapsed \in {0, 1} :
          SubmitResponseAt(h, NoFault, elapsed, TRUE)

SpecRsvp == Init /\ [][NextRsvp]_vars

(***************************************************************************)
(* SpecLifecycle: events are created, published and cancelled while two    *)
(* attendees answer them; responses not recorded.                          *)
(***************************************************************************)
LifecycleRequests ==
    [eventId : {<<"1">>, <<"2">>}, attendeeEmail : {Val(EmailA), Val(EmailB)},
     responseStatus : {Val("Attending"), Val("Maybe")}]

NextLifecycle ==
    \/ CreateEvent(ValidBody, FALSE)
    \/ \E id \in {<<"1">>, <<"2">>} : Publish(id, FALSE)
    \/ \E id \in {<<"1">>, <<"2">>} : Cancel(id, FALSE)
    \/ \E h \in HandlersOf(LifecycleRequests) : SubmitResponse(h, NoFault, FALSE)

SpecLifecycle == Init /\ [][NextLifecycle]_vars

(***************************************************************************)
(* Reads used by the properties.                                           *)
(***************************************************************************)
\* GET /api/events/:eventId/attendees on an existing event:
\* SELECT * FROM eventAttendees WHERE eventId = ?
ListAttendees(eventId) ==
    {i \in DOMAIN eventAttendees : eventAttendees[i].eventId = eventId}

\* the dashboard's response counters: the rows of the list, counted by status
ResponseCounts(attendees) ==
    [s \in allowedStatuses |->
        Cardinality({i \in attendees : eventAttendees[i].responseStatus = s})]

\* the stored counter of an event row for a status
Counter(event, s) ==
    CASE s = "Attending" -> event.attendingCount
      [] s = "Not Attending" -> event.notAttendingCount
      [] s = "Maybe" -> event.maybeCount
      [] s = "Pending" -> event.pendingCount

(***************************************************************************)
(* Properties.                                                             *)
(***************************************************************************)

\* C1: count-consistency.  In every reachable state and for every event the four
\* counters add up to the number of RSVP rows whose eventId is that event.
C1_CountConsistency ==
    \A e \in DOMAIN events :
        events[e].attendingCount + events[e].notAttendingCount
            + events[e].maybeCount + events[e].pendingCount
        = Cardinality({i \in DOMAIN eventAttendees : eventAttendees[i].eventId = e})

\* an event that was published holds two RSVPs in different statuses while
\* another event holds none
C1_Witness ==
    /\ Len(events) = 2
    /\ \E e \in DOMAIN events :
        /\ events[e].status = "Published"
        /\ events[e].attendingCount = 1 /\ events[e].notAttendingCount = 1
        /\ Cardinality({i \in DOMAIN eventAttendees : eventAttendees[i].eventId = e}) = 2

\* C2: per-status counters.  In every reachable state, for every event and every
\* status, the stored counter is a natural number and equals the number of RSVP
\* rows of the event in that status, which is what the dashboard counts from the
\* attendee list.
C2_PerStatusCounters ==
    \A e \in DOMAIN events : \A s \in allowedStatuses :
        /\ Counter(events[e], s) \in Nat
        /\ Counter(events[e], s) = ResponseCounts(ListAttendees(e))[s]

\* both events hold a row, one Pending and one Maybe
C2_Witness ==
    /\ Len(events) = 2
    /\ Counter(events[1], "Pending") = 1 /\ ResponseCounts(ListAttendees(1))["Pending"] = 1
    /\ Counter(events[2], "Maybe") = 1 /\ ResponseCounts(ListAttendees(2))["Maybe"] = 1

(***************************************************************************)
(* What the properties read off a recorded request.                        *)
(***************************************************************************)
IsSubmit(request) == request.op = "submitResponse"

\* the event id and the e-mail the request names
EventOf(request) == ParseInt(request.eventId)
EmailOf(request) == request.attendeeEmail.value

\* the resolved status: the one supplied, Pending when none is
Resolved(request) ==
    IF request.responseStatus.defined /\ request.responseStatus.value # ""
    THEN request.responseStatus.value
    ELSE "Pending"

\* the request has a well-formed e-mail and, if any, an allowed status
WellFormed(request) ==
    /\ request.attendeeEmail.defined
    /\ EmailRegexTest(request.attendeeEmail.value)
    /\ Resolved(request) \in allowedStatuses

\* ids of the rows of a table for the pair a request names
PairRows(rows, request) ==
    {i \in DOMAIN rows : /\ rows[i].eventId = EventOf(request)
                         /\ rows[i].attendeeEmail = EmailOf(request)}

\* no two rows of the table share (eventId, attendeeEmail)
Unique(rows) ==
    \A i, j \in DOMAIN rows :
        (rows[i].eventId = rows[j].eventId /\ rows[i].attendeeEmail = rows[j].attendeeEmail)
            => i = j

\* all events but e are the same in both tables
OthersUnchanged(before, after, e) ==
    /\ DOMAIN after = DOMAIN before
    /\ \A x \in DOMAIN before : x # e => after[x] = before[x]

\* C3: uniqueness.  After every step no two RSVP rows share (eventId,
\* attendeeEmail); and a well-formed submitResponse for a pair that already has a
\* row answers 200, leaves the number of rows and the row's id as they were and
\* sets that row's status to the resolved status.
C3_Uniqueness ==
    [][ /\ Unique(eventAttendees')
        /\ (IsSubmit(last') /\ WellFormed(last') /\ PairRows(eventAttendees, last') # {})
            => /\ last'.code = 200
               /\ Len(eventAttendees') = Len(eventAttendees)
               /\ PairRows(eventAttendees', last') = PairRows(eventAttendees, last')
               /\ \A i \in PairRows(eventAttendees', last') :
                    eventAttendees'[i].responseStatus = Resolved(last')
      ]_vars

\* a second submission for a pair changed its status while two rows exist
C3_Witness ==
    /\ IsSubmit(last) /\ last.code = 200
    /\ last.old # Resolved(last)
    /\ Len(eventAttendees) = 2
    /\ Cardinality(PairRows(eventAttendees, last)) = 1

\* C4: transition correctness.  A submitResponse that changes an existing RSVP
\* from status old to a different status new takes exactly 1 from the counter of
\* old, adds exactly 1 to the counter of new and leaves the other two counters
\* of the event, and every other event, unchanged.
C4_Transition ==
    [][ (/\ IsSubmit(last') /\ last'.code = 200
         /\ \E i \in PairRows(eventAttendees, last') :
                eventAttendees[i].responseStatus # Resolved(last'))
        => LET e == EventOf(last')
               old == eventAttendees[CHOOSE i \in PairRows(eventAttendees, last') : TRUE].responseStatus
               new == Resolved(last')
           IN  /\ last'.old = old
               /\ Counter(events'[e], old) = Counter(events[e], old) - 1
               /\ Counter(events'[e], new) = Counter(events[e], new) + 1
               /\ \A s \in allowedStatuses \ {old, new} :
                    Counter(events'[e], s) = Counter(events[e], s)
               /\ events'[e].status = events[e].status
               /\ OthersUnchanged(events, events', e)
      ]_vars

\* one attendee of an event went from Pending to Attending next to an attendee
\* who is Attending: the counts are now Attending 2, Pending 0
C4_Witness ==
    /\ IsSubmit(last) /\ last.code = 200
    /\ last.old = "Pending" /\ Resolved(last) = "Attending"
    /\ EventOf(last) \in DOMAIN events
    /\ events[EventOf(last)].attendingCount = 2
    /\ events[EventOf(last)].pendingCount = 0

\* C5: idempotence.  A submitResponse with the status the RSVP already has leaves
\* every counter and the RSVP rows unchanged; so a successful submitResponse
\* repeated at once with the same event, e-mail and status changes no counter.
C5_Idempotence ==
    [][ /\ (/\ IsSubmit(last') /\ last'.code = 200
            /\ \E i \in PairRows(eventAttendees, last') :
                   eventAttendees[i].responseStatus = Resolved(last'))
           => /\ events' = events
              /\ eventAttendees' = eventAttendees
        /\ (/\ IsSubmit(last) /\ last.code \in {200, 201}
            /\ IsSubmit(last')
            /\ last'.eventId = last.eventId
            /\ last'.attendeeEmail = last.attendeeEmail
            /\ last'.responseStatus = last.responseStatus)
           => /\ last'.code = 200
              /\ events' = events
              /\ Len(eventAttendees') = Len(eventAttendees)
      ]_vars

\* the request that created a Maybe RSVP was sent again and answered 200
C5_Witness ==
    /\ IsSubmit(last) /\ last.code = 200
    /\ last.old = "Maybe" /\ Resolved(last) = "Maybe"
    /\ EventOf(last) \in DOMAIN events
    /\ events[EventOf(last)].maybeCount = 1
    /\ Len(eventAttendees) = 1

\* C6: insert versus update.  A well-formed submitResponse on an existing event
\* answers 201 exactly when the pair had no row before, and then appends exactly
\* one row with the pair and the resolved status and adds 1 to the counter of
\* that status alone; it answers 200 exactly when the pair had a row.
C6_InsertOrUpdate ==
    [][ (IsSubmit(last') /\ WellFormed(last') /\ EventOf(last') \in DOMAIN events)
        => LET e == EventOf(last')
               new == Resolved(last')
               had == PairRows(eventAttendees, last') # {}
           IN  /\ last'.code = 201 <=> ~had
               /\ last'.code = 200 <=> had
               /\ ~had =>
                    /\ eventAttendees' =
                         Append(eventAttendees,
                                [eventId |-> e, attendeeEmail |-> EmailOf(last'),
                                 responseStatus |-> new])
                    /\ Counter(events'[e], new) = Counter(events[e], new) + 1
                    /\ \A s \in allowedStatuses \ {new} :
                         Counter(events'[e], s) = Counter(events[e], s)
                    /\ events'[e].status = events[e].status
                    /\ OthersUnchanged(events, events', e)
      ]_vars

\* a first submission created the second row of the table, a Maybe with no
\* status given for the first
C6_Witness ==
    /\ IsSubmit(last) /\ last.code = 201
    /\ Resolved(last) = "Maybe"
    /\ Len(eventAttendees) = 2
    /\ eventAttendees[2].responseStatus = "Maybe"
    /\ eventAttendees[1].responseStatus = "Pending"

(***************************************************************************)
(* The upsert as one indivisible operation on the two tables: what a call  *)
(* yields when nothing else runs between its first read and its commit.    *)
(***************************************************************************)
Bump(event, s, delta) ==
    CASE s = "Attending" -> [event EXCEPT !.attendingCount = @ + delta]
      [] s = "Not Attending" -> [event EXCEPT !.notAttendingCount = @ + delta]
      [] s = "Maybe" -> [event EXCEPT !.maybeCount = @ + delta]
      [] s = "Pending" -> [event EXCEPT !.pendingCount = @ + delta]

SerialRows(ev, rows, request) ==
    IF PairRows(rows, request) # {}
    THEN [i \in DOMAIN rows |->
            IF i \in PairRows(rows, request)
            THEN [rows[i] EXCEPT !.responseStatus = Resolved(request)]
            ELSE rows[i]]
    ELSE IF EventOf(request) \in DOMAIN ev
    THEN Append(rows, [eventId |-> EventOf(request), attendeeEmail |-> EmailOf(request),
                       responseStatus |-> Resolved(request)])
    ELSE rows

SerialEvents(ev, rows, request) ==
    LET e == EventOf(request)
    IN  IF e \notin DOMAIN ev THEN ev
        ELSE IF PairRows(rows, request) # {}
        THEN LET old == rows[CHOOSE i \in PairRows(rows, request) : TRUE].responseStatus
             IN  [ev EXCEPT ![e] = Bump(Bump(@, old, -1), Resolved(request), 1)]
        ELSE [ev EXCEPT ![e] = Bump(@, Resolved(request), 1)]

SerialCode(ev, rows, request) ==
    IF PairRows(rows, request) # {} THEN 200
    ELSE IF EventOf(request) \in DOMAIN ev THEN 201
    ELSE 404

\* C7: serializability of upserts.  Requests arrive in any number and order; each
\* submitResponse runs from its lookup to its commit within one step, leaving no
\* transaction open and no handler parked, and its effect on rows and counters
\* and its answer are those of the indivisible upsert applied to the state it
\* found.  Every reachable state is therefore the result of the calls in the
\* serial order of their steps, and no increment or decrement is lost.
C7_Serializable ==
    [][ (IsSubmit(last') /\ WellFormed(last') /\ EventOf(last') > 0)
        => /\ suspended' = {}
           /\ inTransaction' = FALSE
           /\ eventAttendees' = SerialRows(events, eventAttendees, last')
           /\ events' = SerialEvents(events, eventAttendees, last')
           /\ last'.code = SerialCode(events, eventAttendees, last')
      ]_vars

\* three calls on one event, two of them on the same pair, have all been applied:
\* both attendees are Not Attending, the second after having been Attending
C7_Witness ==
    /\ IsSubmit(last) /\ last.code = 200 /\ last.old = "Attending"
    /\ Len(eventAttendees) = 2
    /\ eventAttendees[1].eventId = eventAttendees[2].eventId
    /\ events[EventOf(last)].notAttendingCount = 2
    /\ events[EventOf(last)].attendingCount = 0
    /\ suspended = {} /\ ~inTransaction

\* C9: absent event.  A submitResponse whose eventId is a positive integer naming
\* no event, and whose e-mail and status pass the validation, answers 404 and
\* writes nothing: both tables are as before and no transaction stays open.
C9_AbsentEvent ==
    [][ (/\ IsSubmit(last') /\ WellFormed(last')
         /\ EventOf(last') > 0 /\ EventOf(last') \notin DOMAIN events)
        => /\ last'.code = 404
           /\ eventAttendees' = eventAttendees
           /\ events' = events
           /\ inTransaction' = FALSE
      ]_vars

\* a submission for event 2 was refused with 404 while event 1 exists and holds
\* an RSVP
C9_Witness ==
    /\ IsSubmit(last) /\ last.code = 404
    /\ EventOf(last) = 2
    /\ Len(events) = 1
    /\ Len(eventAttendees) = 1
    /\ events[1].attendingCount = 1

\* C8: all-or-nothing upsert.  When a statement of submitResponse fails (BEGIN,
\* the lookup, the existence check, the row insert or update, a counter
\* decrement or increment, COMMIT), whether or not SQLite has already rolled the
\* transaction back by itself, the call answers 500, both tables are exactly
\* as they were before the call and no transaction stays open.
C8_AllOrNothing ==
    [][ (IsSubmit(last') /\ last'.fault # "none")
        => /\ last'.code = 500
           /\ eventAttendees' = eventAttendees
           /\ events' = events
           /\ inTransaction' = FALSE
           /\ journal' = NoJournal
      ]_vars

\* the increment of an update failed after the row and the old counter had been
\* written: the RSVP is still Attending and counted as such
C8_Witness ==
    /\ IsSubmit(last) /\ last.fault = "increment" /\ last.code = 500
    /\ last.old = "Attending" /\ Resolved(last) = "Maybe"
    /\ Len(eventAttendees) = 1
    /\ eventAttendees[1].responseStatus = "Attending"
    /\ events[EventOf(last)].attendingCount = 1

\* a request names an existing event when its eventId is written as a positive
\* integer and an event has that id
NamesExistingEvent(request) ==
    /\ request.eventId # <<>>
    /\ \A i \in 1..Len(request.eventId) : request.eventId[i] \in Digits
    /\ DigitPrefix(request.eventId, 0) > 0
    /\ DigitPrefix(request.eventId, 0) \in DOMAIN events

\* C10, as claimed: submitResponse (its e-mail and status passing the validation)
\* fails with NotFound (404) whenever eventId is not a positive integer
\* identifying an existing event.
C10_Original ==
    [][ (IsSubmit(last') /\ WellFormed(last') /\ ~NamesExistingEvent(last'))
        => last'.code = 404 ]_vars

\* C10, amended: submitResponse answers 400 and writes nothing whenever parseInt
\* of eventId is NaN, zero or negative, whatever the other fields are; it answers
\* 404 and writes nothing when parseInt of eventId is a positive integer naming
\* no event and the e-mail and status pass the validation; and it succeeds (200
\* or 201) only when parseInt of eventId names an existing event.
C10_EventIdChecked ==
    [][ IsSubmit(last')
        => LET n == EventOf(last')
           IN  /\ (IsNaN(n) \/ n <= 0)
                    => /\ last'.code = 400
                       /\ eventAttendees' = eventAttendees /\ events' = events
               /\ (~IsNaN(n) /\ n > 0 /\ n \notin DOMAIN events /\ WellFormed(last'))
                    => /\ last'.code = 404
                       /\ eventAttendees' = eventAttendees /\ events' = events
               /\ last'.code \in {200, 201} => n \in DOMAIN events
      ]_vars

\* an otherwise well-formed request for eventId "-1" was answered 400 while two
\* events exist and one holds an RSVP
C10_Witness ==
    /\ IsSubmit(last) /\ last.eventId = <<"-", "1">> /\ last.code = 400
    /\ WellFormed(last)
    /\ Len(events) = 2
    /\ Len(eventAttendees) = 1

(***************************************************************************)
(* The shape local@domain.tld, stated without the regular expression: no   *)
(* white space, exactly one @, which is not the first character, and after *)
(* it a dot that neither follows the @ directly nor ends the string.       *)
(***************************************************************************)
HasEmailShape(s) ==
    /\ \A i \in 1..Len(s) : s[i] \notin WhiteSpace
    /\ Cardinality({i \in 1..Len(s) : s[i] = "@"}) = 1
    /\ \E i \in 2..Len(s) :
        /\ s[i] = "@"
        /\ \E j \in (i + 2)..(Len(s) - 1) : s[j] = "."

\* the request carries an e-mail that is present, non-empty and of that shape
CarriesEmail(request) ==
    /\ request.attendeeEmail.defined
    /\ request.attendeeEmail.value # <<>>
    /\ HasEmailShape(request.attendeeEmail.value)

\* C11: e-mail validation.  A submitResponse whose attendeeEmail is missing, empty
\* or not of the shape local@domain.tld is answered 400 whether or not its
\* event exists; it is answered before any store access, so that no failure of
\* BEGIN or of the lookup can reach it, no transaction is opened, and every
\* RSVP row and every counter is as before.  An e-mail of the shape passes.
C11_EmailValidation ==
    [][ IsSubmit(last')
        => /\ ~CarriesEmail(last')
                => /\ last'.code = 400
                   /\ last'.fault = "none"
                   /\ last'.old = ""
                   /\ UNCHANGED <<events, eventAttendees, inTransaction, journal, latest>>
           /\ (CarriesEmail(last') /\ EventOf(last') \in DOMAIN events /\ last'.fault = "none")
                => last'.code \in {200, 201}
      ]_vars

\* an e-mail with no top-level domain sent to an existing event that holds an
\* RSVP was answered 400
C11_Witness ==
    /\ IsSubmit(last) /\ last.code = 400
    /\ last.attendeeEmail = Val(<<"a", "@", "x">>)
    /\ EventOf(last) \in DOMAIN events
    /\ Len(eventAttendees) = 1
    /\ events[EventOf(last)].maybeCount = 1

\* C12: status validation.  A submitResponse that supplies a responseStatus other
\* than Pending, Attending, Not Attending, Maybe (any supplied string, the empty
\* string included) is answered 400 and changes nothing; one that omits
\* responseStatus and succeeds leaves the pair's row Pending.
C12_StatusValidation ==
    [][ IsSubmit(last')
        => /\ (last'.responseStatus.defined /\ last'.responseStatus.value \notin allowedStatuses)
                => /\ last'.code = 400
                   /\ UNCHANGED <<events, eventAttendees, inTransaction, journal>>
           /\ (~last'.responseStatus.defined /\ last'.code \in {200, 201})
                => \A i \in PairRows(eventAttendees', last') :
                        eventAttendees'[i].responseStatus = "Pending"
      ]_vars

\* the successful submissions on event e, latest per e-mail
SubmittedOn(e) == {x \in latest : x.eventId = e}

\* C14: last write wins per attendee.  After any sequence of successful
\* submitResponse calls, for every event the number of RSVP rows equals the
\* number of distinct e-mails submitted, the row of each e-mail holds the status
\* of that e-mail's most recent submission, and each counter equals the number
\* of e-mails whose most recent submission has that status.
C14_LastWriteWins ==
    \A e \in DOMAIN events \cup {x.eventId : x \in latest} :
        /\ e \in DOMAIN events
        /\ Cardinality(ListAttendees(e)) = Cardinality({x.attendeeEmail : x \in SubmittedOn(e)})
        /\ \A x \in SubmittedOn(e) :
              \E i \in ListAttendees(e) :
                  /\ eventAttendees[i].attendeeEmail = x.attendeeEmail
                  /\ eventAttendees[i].responseStatus = x.responseStatus
        /\ \A st \in allowedStatuses :
              Counter(events[e], st) = Cardinality({x \in SubmittedOn(e) : x.responseStatus = st})

\* a: Attending, b: Maybe, a: Not Attending on one event: two rows, and the
\* counts Attending 0, Not Attending 1, Maybe 1, Pending 0
C14_Witness ==
    /\ IsSubmit(last) /\ last.code = 200
    /\ EmailOf(last) = EmailA /\ last.old = "Attending" /\ Resolved(last) = "Not Attending"
    /\ Len(eventAttendees) = 2
    /\ LET e == EventOf(last)
       IN  /\ Cardinality(ListAttendees(e)) = 2
           /\ [eventId |-> e, attendeeEmail |-> EmailB, responseStatus |-> "Maybe"] \in latest
           /\ events[e].attendingCount = 0 /\ events[e].notAttendingCount = 1
           /\ events[e].maybeCount = 1 /\ events[e].pendingCount = 0

(***************************************************************************)
(* What the properties read off a request of the event API.                *)
(***************************************************************************)
RECURSIVE StripZeros(_)
StripZeros(id) == IF Len(id) > 1 /\ Head(id) = "0" THEN StripZeros(Tail(id)) ELSE id

\* the event whose id the route parameter writes in decimal; 0 when there is none
EventNamed(id) ==
    IF \E e \in DOMAIN events : NumberToString(e) = StripZeros(id)
    THEN CHOOSE e \in DOMAIN events : NumberToString(e) = StripZeros(id)
    ELSE 0

\* C15: lifecycle overwrite.  publish sets the status of the event it names to
\* Published and cancel sets it to Cancelled, whatever the status was (the same
\* call repeated and the publishing of a Cancelled event included), answers 200
\* and changes nothing else; each answers 404 exactly when no event has the id,
\* and then changes nothing.
C15_LifecycleOverwrite ==
    [][ last'.op \in {"publish", "cancel"}
        => LET e == EventNamed(last'.eventId)
               target == IF last'.op = "publish" THEN "Published" ELSE "Cancelled"
           IN  /\ last'.code = 404 <=> e = 0
               /\ last'.code = 200 <=> e # 0
               /\ e = 0 => events' = events
               /\ e # 0 => /\ events' = [events EXCEPT ![e].status = target]
                           /\ last'.old = events[e].status
               /\ UNCHANGED <<eventAttendees, inTransaction, journal>>
      ]_vars

\* a Cancelled event that holds an RSVP was published and is now Published
C15_Witness ==
    /\ last.op = "publish" /\ last.code = 200 /\ last.old = "Cancelled"
    /\ events[EventNamed(last.eventId)].status = "Published"
    /\ events[EventNamed(last.eventId)].attendingCount = 1

\* C16: no endpoint performs the transition Cancelled to Published: an event
\* whose status is Cancelled does not have status Published after any call.
C16_NoRepublish ==
    [][ \A e \in DOMAIN events :
            events[e].status = "Cancelled" => events'[e].status # "Published" ]_vars

\* the seven fields of a create-event body
eventFields ==
    {"creatorEmail", "eventName", "description", "targetedAttendees", "eventDate",
     "eventStartTime", "eventEndTime"}

\* the field is missing or empty
MissingOrEmpty(v) == v = JsUndefined \/ v = JsString("")

\* the value is a positive integer
PositiveInteger(v) == v.type = "number" /\ v.num > 0 /\ v.num % v.den = 0

\* C17: createEvent validation.  A createEvent whose body misses one of the seven
\* fields or has it empty, or whose targetedAttendees is not a positive integer,
\* is answered 400 and inserts no event row.
C17_CreateValidation ==
    [][ (/\ last'.op = "createEvent"
         /\ \/ \E f \in eventFields : MissingOrEmpty(last'.body[f])
            \/ ~PositiveInteger(last'.body.targetedAttendees))
        => /\ last'.code = 400
           /\ last'.result = <<>>
           /\ events' = events
      ]_vars

\* a body with a negative targetedAttendees was refused while one event exists
C17_Witness ==
    /\ last.op = "createEvent" /\ last.code = 400
    /\ last.body.targetedAttendees = JsNumber(-1, 1)
    /\ Len(events) = 1

\* a valid createEvent input: six non-empty strings and a positive integer
ValidInput(body) ==
    /\ \A f \in eventFields \ {"targetedAttendees"} :
          body[f].type = "string" /\ body[f].str # ""
    /\ PositiveInteger(body.targetedAttendees)

C19_RoundTrip ==
    [][ last'.op = "getEvent"
        => /\ (/\ last.op = "createEvent" /\ last.code = 201
               /\ last'.eventId = NumberToString(last.result[1].eventId))
              => /\ last'.code = 200
                 /\ Len(last'.result) = 1
                 /\ LET event == last'.result[1]
                    IN  /\ \A f \in eventFields : event[f] = last.body[f]
                        /\ event.id = last.result[1].eventId
                        /\ event.status = "Created"
                        /\ event.created_at \in Nat
           /\ EventNamed(last'.eventId) = 0 <=> last'.code = 404
           /\ UNCHANGED <<events, eventAttendees>>
      ]_vars

\* the second event, created from the other body, was read back
C19_Witness ==
    /\ last.op = "getEvent" /\ last.code = 200
    /\ last.eventId = <<"2">>
    /\ last.result[1].eventName = OtherBody.eventName
    /\ last.result[1].eventEndTime = OtherBody.eventEndTime
    /\ events[1].eventName = ValidBody.eventName

\* C20: listEventsWithCounts is answered 200 in every reachable state, with every
\* event exactly once, its four counters and their sum as totalRsvps, newest
\* created first.
C20_ListWithCounts ==
    [][ last'.op = "listEventsWithCounts"
        => /\ last'.code = 200
           /\ Len(last'.result) = Len(events)
           /\ \A e \in DOMAIN events :
                 \E k \in DOMAIN last'.result :
                    /\ last'.result[k].id = e
                    /\ \A st \in allowedStatuses :
                          Counter(last'.result[k], st) = Counter(events[e], st)
                    /\ last'.result[k].totalRsvps =
                          Cardinality(ListAttendees(e))
           /\ \A j, k \in DOMAIN last'.result :
                 j < k => last'.result[j].created_at >= last'.result[k].created_at
      ]_vars


\* the rows of an answer, as a set
Rows(result) == {result[k] : k \in DOMAIN result}

\* C21 as stated: listAttendeesForEvent answers 404 when no event has the id;
\* otherwise it answers with exactly the RSVP rows of that event, each once, and
\* changes no state.
C21_Original ==
    [][last'.op = "listAttendees" =>
         /\ UNCHANGED <<events, eventAttendees, attendeeDetails, inTransaction, journal>>
         /\ IF ParseInt(last'.eventId) \in DOMAIN events
            THEN /\ last'.code = 200
                 /\ Rows(last'.result) =
                        {AttendeeRecord(i) : i \in ListAttendees(ParseInt(last'.eventId))}
                 /\ Len(last'.result) = Cardinality(ListAttendees(ParseInt(last'.eventId)))
            ELSE last'.code = 404]_vars

\* C21: listAttendeesForEvent answers 400 when parseInt of the id is NaN, zero or
\* negative, and 404 when it is a positive integer that is no event's id;
\* otherwise it answers 200 with exactly the RSVP rows of that event, each once
\* (none for an event without RSVPs, never a row of another event); in every
\* case it changes no state.
C21_ListAttendees ==
    [][last'.op = "listAttendees" =>
         LET eventId == ParseInt(last'.eventId)
         IN  /\ UNCHANGED <<events, eventAttendees, attendeeDetails, inTransaction, journal>>
             /\ IF IsNaN(eventId) \/ eventId <= 0 THEN last'.code = 400
                ELSE IF eventId \notin DOMAIN events THEN last'.code = 404
                ELSE /\ last'.code = 200
                     /\ Rows(last'.result) = {AttendeeRecord(i) : i \in ListAttendees(eventId)}
                     /\ Len(last'.result) = Cardinality(ListAttendees(eventId))
                     /\ \A k \in DOMAIN last'.result : last'.result[k].eventId = eventId]_vars

\* the list of event 1 is answered while the other event has an RSVP too
C21_Witness ==
    /\ last.op = "listAttendees"
    /\ last.code = 200
    /\ ParseInt(last.eventId) = 1
    /\ Len(last.result) = 1
    /\ \E i \in DOMAIN eventAttendees : eventAttendees[i].eventId = 2

\* the RSVP rows of an e-mail on an event
ResponsesOf(e, email) ==
    {i \in DOMAIN eventAttendees : /\ eventAttendees[i].eventId = e
                                   /\ eventAttendees[i].attendeeEmail = email}

\* C22: listEventsForAttendee answers with exactly one row per event for which an
\* RSVP row with that e-mail exists, carrying the current status of that RSVP,
\* and with no row for an event without a response from that e-mail; it is the
\* empty list for an e-mail with no RSVP.
C22_ListEvents ==
    [][last'.op = "listEvents" =>
         LET email == last'.attendeeEmail.value
             responded == {e \in DOMAIN events : ResponsesOf(e, email) # {}}
         IN  /\ last'.code = 200
             /\ {row.id : row \in Rows(last'.result)} = responded
             /\ Len(last'.result) = Cardinality(responded)
             /\ \A row \in Rows(last'.result) :
                    /\ \E i \in ResponsesOf(row.id, email) :
                          row.responseStatus = eventAttendees[i].responseStatus
                    /\ row.eventName = events[row.id].eventName
             /\ (\A i \in DOMAIN eventAttendees : eventAttendees[i].attendeeEmail # email)
                    => last'.result = <<>>
             /\ UNCHANGED <<events, eventAttendees, attendeeDetails>>]_vars

\* the list of an attendee who answered event 2 only, while event 1 has the
\* answer of somebody else
C22_Witness ==
    /\ last.op = "listEvents"
    /\ last.code = 200
    /\ Len(last.result) = 1
    /\ last.result[1].id = 2
    /\ \E i \in DOMAIN eventAttendees :
          /\ eventAttendees[i].eventId = 1
          /\ eventAttendees[i].attendeeEmail # last.attendeeEmail.value

\* the store and the answer after a new request was handled on store db
Handled(db, request) ==
    CHOOSE out \in {[db |-> r.db, code |-> r.h.code] :
                      r \in {Run(NewHandler(request), db, NoFault)}} : TRUE

\* the RSVP rows of a store without their ids and dates
RsvpSet(db) ==
    {[eventId |-> db.eventAttendees[i].eventId,
      attendeeEmail |-> db.eventAttendees[i].attendeeEmail,
      responseStatus |-> db.eventAttendees[i].responseStatus,
      notes |-> db.attendeeDetails[i].notes] : i \in DOMAIN db.eventAttendees}

DistinctPairs(r1, r2) ==
    ParseInt(r1.eventId) # ParseInt(r2.eventId) \/ r1.attendeeEmail # r2.attendeeEmail

\* of two requests on distinct pairs, the one that is listed first: the
\* comparison of the two orders is symmetric, so each two requests are taken once
ListedFirst(r1, r2) ==
    \/ ParseInt(r1.eventId) < ParseInt(r2.eventId)
    \/ ParseInt(r1.eventId) = ParseInt(r2.eventId) /\ r1.attendeeEmail = Val(EmailA)

\* C23: upserts on distinct (eventId, attendeeEmail) pairs commute.  From every
\* reachable state and for every two submissions on different pairs, of one
\* event or of two, handling them in either order leaves the same set of RSVP
\* rows (status and notes) and the same event rows, counters included.
\* Handlers never interleave, so a concurrent execution is one of the two orders.
C23_Commute ==
    \A r1 \in CommuteRequests :
        \E a \in {Handled(Db, r1)} :
            \A r2 \in CommuteRequests :
                DistinctPairs(r1, r2) /\ ListedFirst(r1, r2) =>
                    \E ab \in {Handled(a.db, r2)}, b \in {Handled(Db, r2)} :
                        \E ba \in {Handled(b.db, r1)} :
                            /\ RsvpSet(ab.db) = RsvpSet(ba.db)
                            /\ ab.db.events = ba.db.events
                            /\ ~ab.db.inTransaction /\ ~ba.db.inTransaction

\* a state in which an update of one attendee's RSVP and the first RSVP of
\* another attendee, both on event 1 and both with effect, can be ordered
C23_Witness ==
    /\ \E i \in DOMAIN eventAttendees :
          /\ eventAttendees[i].eventId = 1
          /\ eventAttendees[i].attendeeEmail = EmailA
          /\ eventAttendees[i].responseStatus = "Pending"
    /\ \A i \in DOMAIN eventAttendees : eventAttendees[i].attendeeEmail # EmailB
    /\ \E a \in {Handled(Db, [eventId |-> <<"1">>, attendeeEmail |-> Val(EmailA),
                               responseStatus |-> Val("Attending"), notes |-> Val("n")])} :
          \E ab \in {Handled(a.db, [eventId |-> <<"1">>, attendeeEmail |-> Val(EmailB),
                                    responseStatus |-> UndefinedStatus,
                                    notes |-> UndefinedStatus])} :
              /\ a.code = 200 /\ ab.code = 201
              /\ ab.db.events[1].attendingCount = 1
              /\ ab.db.events[1].pendingCount = 1
              /\ events[1].attendingCount = 0

\* the four counter columns of an event row
counterFields == {"attendingCount", "notAttendingCount", "maybeCount", "pendingCount"}

\* the fields of two event rows that differ
Changed(before, after) == {f \in DOMAIN before : before[f] # after[f]}

\* C24: event frame.  Publish and cancel change only the status of the event
\* they target; an RSVP write changes only the four counters of the event it
\* targets, never its status and never a field of another event; and no
\* operation changes the id, created_at or a creator-supplied field of an
\* event that exists: the event stays at its id with those fields as created.
C24_EventFrame ==
    [][/\ \A e \in DOMAIN events :
            /\ e \in DOMAIN events'
            /\ Changed(events[e], events'[e]) \subseteq counterFields \cup {"status"}
       /\ last'.op \in {"publish", "cancel"} =>
            /\ DOMAIN events' = DOMAIN events
            /\ \A e \in DOMAIN events :
                  Changed(events[e], events'[e]) \subseteq
                      IF e = SqlIntegerValue(last'.eventId) THEN {"status"} ELSE {}
            /\ UNCHANGED <<eventAttendees, attendeeDetails>>
       /\ IsSubmit(last') =>
            /\ DOMAIN events' = DOMAIN events
            /\ \A e \in DOMAIN events :
                  Changed(events[e], events'[e]) \subseteq
                      IF e = EventOf(last') THEN counterFields ELSE {}
       /\ last'.op \in {"editEvent", "getEvent", "listEventsWithCounts"} => events' = events]_vars

\* an RSVP was written on event 1, whose counter moved, while event 2 exists
\* and event 1 is published
C24_Witness ==
    /\ IsSubmit(last)
    /\ last.code = 201
    /\ EventOf(last) = 1
    /\ Len(events) = 2
    /\ events[1].status = "Published"
    /\ events[1].maybeCount = 1
    /\ events[2].attendingCount + events[2].notAttendingCount + events[2].maybeCount
         + events[2].pendingCount = 0

\* C25: no deletion.  Across every step of the API no event and no RSVP row is
\* removed: every event keeps its id, every RSVP row keeps its id, its event
\* and its e-mail, so the set of event ids and the set of (eventId,
\* attendeeEmail) pairs only grow; and every RSVP row references an event that
\* exists.
C25_NoDeletion ==
    [][/\ DOMAIN events \subseteq DOMAIN events'
       /\ \A i \in DOMAIN eventAttendees :
            /\ i \in DOMAIN eventAttendees'
            /\ eventAttendees'[i].eventId = eventAttendees[i].eventId
            /\ eventAttendees'[i].attendeeEmail = eventAttendees[i].attendeeEmail
       /\ DOMAIN attendeeDetails' = DOMAIN eventAttendees'
       /\ \A i \in DOMAIN eventAttendees' : eventAttendees'[i].eventId \in DOMAIN events']_vars

\* both events were created and have an RSVP each, after event 1 was cancelled
C25_Witness ==
    /\ Len(events) = 2
    /\ Len(eventAttendees) = 2
    /\ eventAttendees[1].eventId = 1
    /\ eventAttendees[2].eventId = 2
    /\ events[1].status = "Cancelled"
    /\ \E i \in DOMAIN eventAttendees : eventAttendees[i].responseStatus = "Not Attending"

\* C26: RSVP timestamps.  Every successful submitResponse, insert or update and
\* also when the status stays the same, sets the rsvpDate of the row to the time
\* of that write; the id and created_at of a row are set when it is inserted
\* and no later update changes them.
C26_Timestamps ==
    [][/\ \A i \in DOMAIN attendeeDetails :
            /\ i \in DOMAIN attendeeDetails'
            /\ attendeeDetails'[i].created_at = attendeeDetails[i].created_at
       /\ IsSubmit(last') /\ last'.code \in {200, 201} =>
            LET written == {i \in DOMAIN eventAttendees' :
                              /\ eventAttendees'[i].eventId = EventOf(last')
                              /\ eventAttendees'[i].attendeeEmail = EmailOf(last')}
            IN  /\ written # {}
                /\ \A i \in written :
                      /\ attendeeDetails'[i].rsvpDate = clock'
                      /\ IF last'.code = 201
                         THEN /\ i = Len(eventAttendees) + 1
                              /\ attendeeDetails'[i].created_at = clock'
                         ELSE i \in ResponsesOf(EventOf(last'), EmailOf(last'))]_vars

\* a row is written again, with the status it has, seconds after it was
\* inserted: its rsvpDate is the time of this write, later than its created_at
C26_Witness ==
    /\ IsSubmit(last)
    /\ last.code = 200
    /\ last.old = Resolved(last)
    /\ \E i \in ResponsesOf(EventOf(last), EmailOf(last)) :
          /\ attendeeDetails[i].rsvpDate = clock
          /\ attendeeDetails[i].created_at < clock

\* C27: the default is applied on update.  A submitResponse without
\* responseStatus for a pair that has a row answers 200, sets the status of the
\* row to Pending and moves one unit from the counter of the previous status to
\* pendingCount; nothing else of the store changes.
C27_DefaultOnUpdate ==
    [][ (/\ IsSubmit(last') /\ ~last'.responseStatus.defined
         /\ PairRows(eventAttendees, last') # {})
        => LET e == EventOf(last')
               i == CHOOSE i \in PairRows(eventAttendees, last') : TRUE
               old == eventAttendees[i].responseStatus
           IN  /\ last'.code = 200
               /\ eventAttendees' = [eventAttendees EXCEPT ![i].responseStatus = "Pending"]
               /\ events'[e] = Bump(Bump(events[e], old, -1), "Pending", 1)
               /\ OthersUnchanged(events, events', e)
      ]_vars

\* an attendee who was Attending submitted again without a status: the row is
\* Pending and the unit went from attendingCount to pendingCount
C27_Witness ==
    /\ IsSubmit(last) /\ last.code = 200
    /\ ~last.responseStatus.defined
    /\ last.old = "Attending"
    /\ \A i \in PairRows(eventAttendees, last) : eventAttendees[i].responseStatus = "Pending"
    /\ events[EventOf(last)].pendingCount = 1
    /\ events[EventOf(last)].attendingCount = 0

\* the store with the status of event e replaced
WithStatus(db, e, status) == [db EXCEPT !.events[e].status = status]

\* C28: RSVP writes ignore the lifecycle.  From every reachable store, a
\* submitResponse on an existing event succeeds (200 or 201), and with the
\* event in any of the statuses Created, Published, Cancelled and Archived it
\* gives the same answer, the same rows and the same counters, and leaves the
\* status as it is.
C28_IgnoresLifecycle ==
    \A request \in CommuteRequests :
        EventOf(request) \in DOMAIN events =>
            \E now \in {Handled(Db, request)} :
                /\ now.code \in {200, 201}
                /\ \A status \in eventStatuses :
                      \E other \in {Handled(WithStatus(Db, EventOf(request), status), request)} :
                          /\ other.code = now.code
                          /\ other.db.eventAttendees = now.db.eventAttendees
                          /\ other.db.attendeeDetails = now.db.attendeeDetails
                          /\ other.db.events = WithStatus(now.db, EventOf(request), status).events

\* event 1 is cancelled and has an RSVP; a first RSVP of another attendee is
\* accepted on it, and would be on the archived event too
C28_Witness ==
    /\ Len(events) >= 1
    /\ events[1].status = "Cancelled"
    /\ events[1].attendingCount = 1
    /\ \A i \in DOMAIN eventAttendees : eventAttendees[i].attendeeEmail # EmailB
    /\ \E request \in {[eventId |-> <<"1">>, attendeeEmail |-> Val(EmailB),
                         responseStatus |-> Val("Attending"), notes |-> UndefinedStatus]} :
          /\ Handled(Db, request).code = 201
          /\ Handled(WithStatus(Db, 1, "Archived"), request).code = 201
          /\ Handled(Db, request).db.events[1].attendingCount = 2

\* the transaction statements of a request that ran, in the order issued
Ran(tx) == [k \in DOMAIN SelectSeq(tx, LAMBDA t : t.ok) |-> SelectSeq(tx, LAMBDA t : t.ok)[k].stmt]

\* C29: transaction bracketing.  The transaction statements of every
\* submitResponse form BEGIN followed by exactly one of COMMIT and ROLLBACK, or
\* there are none: the handler does not return with a transaction open, issues
\* no COMMIT and no ROLLBACK without an active transaction, and issues no BEGIN
\* while a transaction is open.
C29_Bracketing ==
    [][IsSubmit(last') =>
         /\ Ran(last'.tx) \in {<<>>, <<"BEGIN", "COMMIT">>, <<"BEGIN", "ROLLBACK">>}
         /\ inTransaction' = FALSE
         /\ \A k \in DOMAIN last'.tx :
               /\ last'.tx[k].stmt \in {"COMMIT", "ROLLBACK"} => last'.tx[k].active
               /\ last'.tx[k].stmt = "BEGIN" => ~last'.tx[k].active]_vars

\* C30: reachable statuses.  The status of an event changes only to Published,
\* by a publish of that event, and to Cancelled, by a cancel of that event; no
\* event ever has the status Archived, and an event whose status has left
\* Created never has the status Created again.
C30_ReachableStatuses ==
    [][/\ \A e \in DOMAIN events :
            /\ events'[e].status # events[e].status =>
                  /\ SqlIntegerValue(last'.eventId) = e
                  /\ \/ last'.op = "publish" /\ events'[e].status = "Published"
                     \/ last'.op = "cancel" /\ events'[e].status = "Cancelled"
            /\ events[e].status # "Created" => events'[e].status # "Created"
       /\ \A e \in DOMAIN events' : events'[e].status \in {"Created", "Published", "Cancelled"}
      ]_vars

\* of two events, the first was cancelled and then published, the second is
\* cancelled: the publish just answered
C30_Witness ==
    /\ Len(events) = 2
    /\ last.op = "publish" /\ last.code = 200
    /\ SqlIntegerValue(last.eventId) = 1
    /\ last.old = "Cancelled"
    /\ events[1].status = "Published"
    /\ events[2].status = "Cancelled"
====
